---- MODULE Spec2Model ----
(***************************************************************************)
(* Record Store of the digital-menu platform (data.py): the JSON document  *)
(* slug -> restaurant record, load_data / save_data, and the validated     *)
(* mutating operations, executed by request-handling threads; the table    *)
(* handlers of app.py that read a record and write it back; and the Event  *)
(* Store (analytics.py): the append-only log of scans and clicks and its   *)
(* monthly summary.                                                        *)
(*                                                                         *)
(* Representation.  A Python str is a sequence of one-character strings.   *)
(* A JSON / Python scalar is a tagged value [t, n, s]: Num carries the     *)
(* number in thousandths (1.5 is Num(1500)), Str the characters, Bool 0/1. *)
(* A dict is a function from its keys; a list is a sequence.               *)
(***************************************************************************)
EXTENDS Integers, Sequences, FiniteSets, TLC

\* Number of request-handling threads that call into the store.
NumThreads == 2

Threads == 1..NumThreads

\* Largest table number the table requests ask for.
MaxTable == 2

\* Number of events recorded on top of the log the Event Store starts with.
MaxEvents == 2

-----------------------------------------------------------------------------
(* Python values *)

Num(m)  == [t |-> "num",  n |-> m, s |-> <<>>]
Str(cs) == [t |-> "str",  n |-> 0, s |-> cs]
Bool(b) == [t |-> "bool", n |-> IF b THEN 1 ELSE 0, s |-> <<>>]
None    == [t |-> "none", n |-> 0, s |-> <<>>]

LowerSeq == <<"a","b","c","d","e","f","g","h","i","j","k","l","m",
              "n","o","p","q","r","s","t","u","v","w","x","y","z">>
UpperSeq == <<"A","B","C","D","E","F","G","H","I","J","K","L","M",
              "N","O","P","Q","R","S","T","U","V","W","X","Y","Z">>
DigitSeq == <<"0","1","2","3","4","5","6","7","8","9">>

Range(f) == {f[i] : i \in DOMAIN f}

LowerChars == Range(LowerSeq)
UpperChars == Range(UpperSeq)
DigitChars == Range(DigitSeq)
Whitespace == {" ", "\n", "\t"}

IndexIn(c, seq) == CHOOSE i \in DOMAIN seq : seq[i] = c

UpperC(c) == IF c \in LowerChars THEN UpperSeq[IndexIn(c, LowerSeq)] ELSE c
LowerC(c) == IF c \in UpperChars THEN LowerSeq[IndexIn(c, UpperSeq)] ELSE c
IsCased(c) == c \in LowerChars \cup UpperChars

\* str.strip(): drop leading and trailing whitespace.
RECURSIVE LStrip(_)
LStrip(cs) == IF cs # <<>> /\ Head(cs) \in Whitespace THEN LStrip(Tail(cs)) ELSE cs

RECURSIVE RStrip(_)
RStrip(cs) ==
    IF cs # <<>> /\ cs[Len(cs)] \in Whitespace
    THEN RStrip(SubSeq(cs, 1, Len(cs) - 1)) ELSE cs

Strip(cs) == RStrip(LStrip(cs))

\* str.title(): a cased character is upper-cased when it follows an uncased
\* character (or starts the string) and lower-cased otherwise.
Title(cs) ==
    [i \in 1..Len(cs) |->
        IF i > 1 /\ IsCased(cs[i - 1]) THEN LowerC(cs[i]) ELSE UpperC(cs[i])]

DigitVal(c) == IndexIn(c, DigitSeq) - 1

RECURSIVE DigitsVal(_)
DigitsVal(cs) ==
    IF cs = <<>> THEN 0
    ELSE DigitsVal(SubSeq(cs, 1, Len(cs) - 1)) * 10 + DigitVal(cs[Len(cs)])

IsDigits(cs) == \A i \in DOMAIN cs : cs[i] \in DigitChars

RECURSIVE DigitsOf(_)
DigitsOf(k) ==
    IF k < 10 THEN <<DigitSeq[k + 1]>>
    ELSE Append(DigitsOf(k \div 10), DigitSeq[(k % 10) + 1])

Abs(x) == IF x < 0 THEN -x ELSE x

\* str(v) for a scalar.  A number prints its integer part and, when it has
\* one, its fraction in thousandths.
PyStr(v) ==
    CASE v.t = "str"  -> v.s
      [] v.t = "bool" -> IF v.n = 1 THEN <<"T","r","u","e">> ELSE <<"F","a","l","s","e">>
      [] v.t = "none" -> <<"N","o","n","e">>
      [] v.t = "num"  ->
            LET a    == Abs(v.n)
                sign == IF v.n < 0 THEN <<"-">> ELSE <<>>
                frac == a % 1000
                pad  == IF frac < 10 THEN <<"0","0">> ELSE IF frac < 100 THEN <<"0">> ELSE <<>>
            IN  sign \o DigitsOf(a \div 1000)
                     \o (IF frac = 0 THEN <<>> ELSE <<".">> \o pad \o DigitsOf(frac))

\* bool(v), also the truth value of `if v`.
PyBool(v) ==
    CASE v.t = "str"  -> v.s # <<>>
      [] v.t = "bool" -> v.n = 1
      [] v.t = "none" -> FALSE
      [] v.t = "num"  -> v.n # 0

\* A plain decimal literal [sign] digits [. digits], value in thousandths.
ParseDecimal(cs) ==
    LET signed == cs # <<>> /\ cs[1] \in {"+", "-"}
        body   == IF signed THEN Tail(cs) ELSE cs
        dots   == {i \in DOMAIN body : body[i] = "."}
        dot    == IF dots = {} THEN Len(body) + 1 ELSE CHOOSE i \in dots : TRUE
        ip     == SubSeq(body, 1, dot - 1)
        fp     == SubSeq(body, dot + 1, Len(body))
        fp3    == SubSeq(fp \o <<"0","0","0">>, 1, 3)
        good   == /\ Cardinality(dots) <= 1
                  /\ IsDigits(ip) /\ IsDigits(fp)
                  /\ Len(ip) + Len(fp) > 0
        mag    == DigitsVal(ip) * 1000 + DigitsVal(fp3)
    IN  IF good
        THEN [ok |-> TRUE, n |-> IF signed /\ cs[1] = "-" THEN -mag ELSE mag]
        ELSE [ok |-> FALSE, n |-> 0]

\* float(v): ok = FALSE stands for the ValueError / TypeError it raises.
PyFloat(v) ==
    CASE v.t = "num"  -> [ok |-> TRUE, n |-> v.n]
      [] v.t = "bool" -> [ok |-> TRUE, n |-> v.n * 1000]
      [] v.t = "none" -> [ok |-> FALSE, n |-> 0]
      [] v.t = "str"  -> ParseDecimal(Strip(v.s))

\* int(v): truncation toward zero for a number, a digit string otherwise.
PyInt(v) ==
    CASE v.t = "num"  -> [ok |-> TRUE,
                          n |-> IF v.n < 0 THEN -((-v.n) \div 1000) ELSE v.n \div 1000]
      [] v.t = "bool" -> [ok |-> TRUE, n |-> v.n]
      [] v.t = "none" -> [ok |-> FALSE, n |-> 0]
      [] v.t = "str"  ->
            LET p == ParseDecimal(Strip(v.s))
            IN  IF p.ok /\ "." \notin Range(v.s)
                THEN [ok |-> TRUE, n |-> IF p.n < 0 THEN -((-p.n) \div 1000) ELSE p.n \div 1000]
                ELSE [ok |-> FALSE, n |-> 0]

\* round(price, 2) of a non-negative price in thousandths; an exact tie goes
\* to the even hundredth.
Round2(m) ==
    LET q == m \div 10
        r == m % 10
    IN  IF r < 5 THEN q * 10
        ELSE IF r > 5 THEN (q + 1) * 10
        ELSE IF q % 2 = 0 THEN q * 10 ELSE (q + 1) * 10

-----------------------------------------------------------------------------
(* data.py: module constants *)

SlugChars == LowerChars \cup DigitChars \cup {"-"}

\* VALID_SLUG_PATTERN.match(slug) for ^[a-z0-9-]+$ : `$` also matches just
\* before one trailing newline.
ValidSlug(slug) ==
    LET core == IF slug # <<>> /\ slug[Len(slug)] = "\n"
                THEN SubSeq(slug, 1, Len(slug) - 1) ELSE slug
    IN  core # <<>> /\ \A i \in DOMAIN core : core[i] \in SlugChars

VALID_ITEM_FIELDS == {"name", "name_ur", "price", "image_url", "category",
                      "is_available", "is_chefs_special"}

VALID_THEMES == {"default", "traditional"}

\* Upper end of the price sanity check, in currency units.
MaxPrice == 999999

EmptyDict == [k \in {} |-> None]
EmptyDoc  == [k \in {} |-> EmptyDict]

\* dict.get(key, default)
Get(d, k, default) == IF k \in DOMAIN d THEN d[k] ELSE default

\* dict.update(other)
DictUpdate(d, other) ==
    [k \in DOMAIN d \cup DOMAIN other |-> IF k \in DOMAIN other THEN other[k] ELSE d[k]]

-----------------------------------------------------------------------------
(* update_menu_item: validation of the patch *)

\* Variant: the sanity check compares against one million.
PriceInRange_Million(price) == ~(price < 0 \/ price >= (MaxPrice + 1) * 1000)

PriceInRange(price) == ~(price < 0 \/ price > MaxPrice * 1000)

\* Variant: a bad price does not refuse the patch.
PatchRejected_Never(fields) == FALSE

\* The patch is refused as a whole when its price does not parse or is out
\* of range.
PatchRejected(fields) ==
    /\ "price" \in DOMAIN fields
    /\ LET p == PyFloat(fields["price"])
       IN  ~p.ok \/ ~PriceInRange(p.n)

NormalizeField(k, v) ==
    CASE k = "price" -> Num(Round2(PyFloat(v).n))
      [] k \in {"is_available", "is_chefs_special"} -> Bool(PyBool(v))
      [] k = "category" -> Str(Title(Strip(PyStr(v))))
      [] OTHER -> IF PyBool(v) THEN Str(Strip(PyStr(v))) ELSE Str(<<>>)

ValidFields(fields) ==
    [k \in DOMAIN fields \cap VALID_ITEM_FIELDS |-> NormalizeField(k, fields[k])]

\* Variant: the item is replaced by the patch instead of merged with it.
MergeItem_Replace(data, slug, idx, valid_fields) ==
    [data EXCEPT ![slug] =
        [@ EXCEPT !["menu"] = [@ EXCEPT ![idx + 1] = valid_fields]]]

\* rest['menu'][idx].update(valid_fields) inside the loaded document.
MergeItem(data, slug, idx, valid_fields) ==
    [data EXCEPT ![slug] =
        [@ EXCEPT !["menu"] =
            [@ EXCEPT ![idx + 1] = DictUpdate(@, valid_fields)]]]

-----------------------------------------------------------------------------
(* create_restaurant: sanitising of the draft *)

MainCourse == <<"M","a","i","n"," ","C","o","u","r","s","e">>

ItemKept(entry) == entry.isdict /\ "name" \in DOMAIN entry.d

\* float(item.get('price', 0)) raises for a price that does not parse.
ItemRaises(entry) == ItemKept(entry) /\ ~PyFloat(Get(entry.d, "price", Num(0))).ok

SanitizeItem(d) ==
    [name             |-> Str(Strip(PyStr(Get(d, "name", Str(<<>>))))),
     name_ur          |-> Str(Strip(PyStr(Get(d, "name_ur", Str(<<>>))))),
     price            |-> Num(PyFloat(Get(d, "price", Num(0))).n),
     image_url        |-> Str(Strip(PyStr(Get(d, "image_url", Str(<<>>))))),
     category         |-> LET c == Title(Strip(PyStr(Get(d, "category", Str(MainCourse)))))
                          IN  Str(IF c = <<>> THEN MainCourse ELSE c),
     is_available     |-> Bool(PyBool(Get(d, "is_available", Bool(TRUE)))),
     is_chefs_special |-> Bool(PyBool(Get(d, "is_chefs_special", Bool(FALSE))))]

RECURSIVE SanitizeMenu(_)
SanitizeMenu(entries) ==
    IF entries = <<>> THEN <<>>
    ELSE IF ItemKept(Head(entries))
         THEN <<SanitizeItem(Head(entries).d)>> \o SanitizeMenu(Tail(entries))
         ELSE SanitizeMenu(Tail(entries))

MenuRaises(entries) == \E i \in DOMAIN entries : ItemRaises(entries[i])

\* Variant: the default_theme argument is stored unchecked.
NewRecord_AnyTheme(slug, restaurant, default_theme, now) ==
    [name       |-> LET n == Strip(PyStr(Get(restaurant, "name", Str(slug))))
                    IN  Str(IF n = <<>> THEN slug ELSE n),
     name_ur    |-> Str(Strip(PyStr(Get(restaurant, "name_ur", Str(<<>>))))),
     whatsapp   |-> Str(Strip(PyStr(Get(restaurant, "whatsapp", Str(<<>>))))),
     menu       |-> SanitizeMenu(Get(restaurant, "menu", <<>>)),
     theme      |-> default_theme,
     created_at |-> now]

NewRecord(slug, restaurant, default_theme, now) ==
    [name       |-> LET n == Strip(PyStr(Get(restaurant, "name", Str(slug))))
                    IN  Str(IF n = <<>> THEN slug ELSE n),
     name_ur    |-> Str(Strip(PyStr(Get(restaurant, "name_ur", Str(<<>>))))),
     whatsapp   |-> Str(Strip(PyStr(Get(restaurant, "whatsapp", Str(<<>>))))),
     menu       |-> SanitizeMenu(Get(restaurant, "menu", <<>>)),
     theme      |-> IF default_theme \in VALID_THEMES THEN default_theme ELSE "default",
     created_at |-> now]

-----------------------------------------------------------------------------
(* Inputs of the calls *)

SA == <<"a">>
SB == <<"b">>
BadSlug == <<"A","!">>

Slugs == {SA, SB}

\* time.time() at creation: one instant is enough, no operation compares it.
Clock == {1700000000}
T0 == CHOOSE now \in Clock : TRUE

Entry(d) == [isdict |-> TRUE, d |-> d]

D1 == [name |-> Str(<<" ","i","n","n"," ">>),
       menu |-> <<Entry([name |-> Str(<<"t","e","a">>), price |-> Num(1500),
                         category |-> Str(<<"h","o","t"," ","t","e","a">>)]),
                  Entry([name |-> Str(<<"n","a","n">>), price |-> Str(<<"0",".","5">>)])>>]

D2 == [name |-> Str(<<"p","u","b">>),
       menu |-> <<Entry([name |-> Str(<<"p","i","e">>), price |-> Num(2000)])>>]

\* Drafts with malformed menu entries: a list in place of an item, an item
\* without name, an item with a negative price, an item whose price is text.
NotAnItem == [isdict |-> FALSE, d |-> EmptyDict]

DNeg == [name |-> Str(<<"b","a","r">>),
         menu |-> <<NotAnItem,
                    Entry([price |-> Num(1000)]),
                    Entry([name |-> Str(<<"i","c","e">>), price |-> Num(0 - 1000)]),
                    Entry([name |-> Str(<<"p","i","e">>), price |-> Num(2000)])>>]

DAbc == [name |-> Str(<<"b","a","r">>),
         menu |-> <<Entry([name |-> Str(<<"p","i","e">>), price |-> Num(2000)]),
                    Entry([name |-> Str(<<"i","c","e">>), price |-> Str(<<"a","b","c">>)])>>]

SeedDoc ==
    [s \in Slugs |-> IF s = SA THEN NewRecord(SA, D1, "default", T0)
                     ELSE NewRecord(SB, D2, "default", T0)]

\* A whole record as the table flows hand it to update_restaurant.
RX == DictUpdate(NewRecord(SB, D2, "default", T0),
                 [tables |-> <<[num |-> 1, qr_path |-> Str(<<"q","r">>)]>>])

PPrice   == [price |-> Num(1236)]
PFlag    == [is_available |-> Str(<<>>)]
PText    == [category |-> Str(<<" ","i","c","e","d"," ","t","e","a">>),
             name |-> Str(<<" ","c","h","a","i"," ">>),
             is_chefs_special |-> Num(1000),
             bogus |-> Str(<<"x">>)]
PZero    == [price |-> Num(0)]
PTop     == [price |-> Num(999999000)]
PAbove   == [price |-> Num(999999990)]
PMillion == [price |-> Num(1000000000)]
PNeg     == [price |-> Num(0 - 10)]
PAbc     == [price |-> Str(<<"a","b","c">>)]
PUnknown == [bogus |-> Str(<<"x">>)]
PBadMix  == [price |-> Str(<<"a","b","c">>), name |-> Str(<<"x">>)]

\* A record without a menu, stored through update_restaurant.
RNoMenu == [name |-> Str(<<"p","u","b">>), theme |-> "default"]

Op(name, slug, index, fields, restaurant, theme, new_restaurant) ==
    [name |-> name, slug |-> slug, index |-> index, fields |-> fields,
     restaurant |-> restaurant, theme |-> theme, new_restaurant |-> new_restaurant]

NoOp == Op("none", <<>>, None, EmptyDict, EmptyDict, "", EmptyDict)

UpdateMenuItem(slug, index, fields) ==
    Op("update_menu_item", slug, index, fields, EmptyDict, "", EmptyDict)
CreateRestaurant(slug, restaurant, default_theme) ==
    Op("create_restaurant", slug, None, EmptyDict, restaurant, default_theme, EmptyDict)
DeleteRestaurant(slug) ==
    Op("delete_restaurant", slug, None, EmptyDict, EmptyDict, "", EmptyDict)
SetRestaurantTheme(slug, theme) ==
    Op("set_restaurant_theme", slug, None, EmptyDict, EmptyDict, theme, EmptyDict)
UpdateRestaurant(slug, new_restaurant) ==
    Op("update_restaurant", slug, None, EmptyDict, EmptyDict, "", new_restaurant)
GetRestaurant(slug) ==
    Op("get_restaurant", slug, None, EmptyDict, EmptyDict, "", EmptyDict)

\* The table requests of app.py; `index` carries the table number as the
\* request delivers it, a string.
AdminAddTable(slug, table_num) ==
    Op("admin_add_table", slug, Str(table_num), EmptyDict, EmptyDict, "", EmptyDict)
AdminDeleteTable(slug, table_num) ==
    Op("admin_delete_table", slug, Str(table_num), EmptyDict, EmptyDict, "", EmptyDict)

\* Requests of the table pages, and a delete_restaurant running next to them.
TableRequests ==
    {AdminAddTable(SB, DigitsOf(n)) : n \in 1..MaxTable}
    \cup {AdminAddTable(SB, <<"0">>), AdminAddTable(SB, <<"x">>),
          AdminDeleteTable(SB, <<"1">>)}

TableCalls == {DeleteRestaurant(SB)}

\* Calls of the threads that compete for the save lock, and a reader.
FairCalls ==
    {UpdateMenuItem(SA, Num(0), PPrice), DeleteRestaurant(SA), GetRestaurant(SA)}

\* Table requests of the single caller.
SeqRequests == {AdminAddTable(SB, <<"2">>), AdminDeleteTable(SB, <<"1">>)}

\* Calls issued by concurrently running request threads.
ConcCalls ==
    {UpdateMenuItem(SA, Num(0), PPrice), UpdateMenuItem(SB, Num(0), PFlag),
     CreateRestaurant(SA, D1, "default"), CreateRestaurant(SA, D2, "default"),
     DeleteRestaurant(SA), SetRestaurantTheme(SB, "traditional"),
     UpdateRestaurant(SB, RX), GetRestaurant(SA)}

\* Calls issued one after the other by a single caller.
SeqCalls ==
    {UpdateMenuItem(SA, Num(0), f) :
        f \in {PPrice, PText, PZero, PTop, PAbove, PMillion, PNeg, PAbc, PUnknown}}
    \cup {UpdateMenuItem(SA, Num(1000), PFlag), UpdateMenuItem(SA, Num(2000), PPrice),
          UpdateMenuItem(SA, Num(0 - 1000), PPrice),
          UpdateMenuItem(SA, Num(0), PBadMix),
          UpdateMenuItem(SA, Str(<<"x">>), PPrice), UpdateMenuItem(SA, None, PPrice),
          UpdateMenuItem(SB, Num(0), PPrice)}
    \cup {CreateRestaurant(SA, D1, "default"), CreateRestaurant(SA, D2, "default"),
          CreateRestaurant(SB, D2, "neon"), CreateRestaurant(BadSlug, D1, "default"),
          CreateRestaurant(SA, DNeg, "default"), CreateRestaurant(SA, DAbc, "default")}
    \cup {DeleteRestaurant(SA), DeleteRestaurant(SB), GetRestaurant(SA), GetRestaurant(SB),
          SetRestaurantTheme(SA, "neon"), SetRestaurantTheme(SB, "traditional"),
          UpdateRestaurant(SB, RX), UpdateRestaurant(BadSlug, RX),
          UpdateRestaurant(SB, RNoMenu)}

-----------------------------------------------------------------------------
(* State *)

VARIABLES
    file,   \* DATA_FILE on disk: absent, malformed, or a complete JSON document
    lock,   \* _save_lock: the thread holding it, 0 when free
    tmp,    \* per thread, the temporary file made by mkstemp
    pc,     \* per thread, its position in the call
    op,     \* per thread, the call and its arguments
    data,   \* per thread, the dict returned by load_data and mutated in place
    ret,    \* per thread, what the call returned or raised
    pre,    \* per thread, DATA_FILE and life as they were when the call began
    life,   \* per slug, the last whole-record write that returned True
    events, \* analytics: the rows of table events, in order of their id
    clock,  \* analytics: CURRENT_TIMESTAMP, as a position in Instants
    report  \* analytics: what the last call into analytics.py returned

vars == <<file, lock, tmp, pc, op, data, ret, pre, life, events, clock, report>>

AbsentFile  == [kind |-> "absent",  doc |-> EmptyDoc]
CorruptFile == [kind |-> "corrupt", doc |-> EmptyDoc]
JsonFile(d) == [kind |-> "json",    doc |-> d]

NoTmp == [exists |-> FALSE, complete |-> FALSE, doc |-> EmptyDoc]

NoLife == [s \in Slugs |-> "none"]
NoPre  == [file |-> AbsentFile, life |-> NoLife]

\* A record call returns nothing.
NoReport == [kind |-> "none"]

InitFiles == {AbsentFile, CorruptFile, JsonFile(EmptyDoc), JsonFile(SeedDoc)}

Init ==
    /\ file \in InitFiles
    /\ lock = 0
    /\ tmp  = [t \in Threads |-> NoTmp]
    /\ pc   = [t \in Threads |-> "idle"]
    /\ op   = [t \in Threads |-> NoOp]
    /\ data = [t \in Threads |-> EmptyDoc]
    /\ ret  = [t \in Threads |-> "pending"]
    /\ pre  = [t \in Threads |-> NoPre]
    /\ life = [s \in Slugs |-> IF s \in DOMAIN file.doc THEN "create" ELSE "none"]
    /\ events = <<>>
    /\ clock  = 1
    /\ report = NoReport

-----------------------------------------------------------------------------
(* The operations, from function entry up to their call of save_data *)

DocPut(d, k, v) == [x \in DOMAIN d \cup {k} |-> IF x = k THEN v ELSE d[x]]
DocDel(d, k)    == [x \in DOMAIN d \ {k} |-> d[x]]

\* `not rest`: the slug is unknown or its record is an empty dict.
NoRest(d, slug) == slug \notin DOMAIN d \/ DOMAIN d[slug] = {}

\* What a call does before it reads the document: TRUE when it returns
\* False without reading.
EarlyReject(c) ==
    CASE c.name = "update_menu_item" ->
            PatchRejected(c.fields) \/ DOMAIN ValidFields(c.fields) = {}
      [] c.name = "set_restaurant_theme" -> c.theme \notin VALID_THEMES
      [] c.name \in {"create_restaurant", "update_restaurant"} -> ~ValidSlug(c.slug)
      [] OTHER -> FALSE

Outcome(r, d) == [ret |-> r, data |-> d]

update_menu_item(c, d) ==
    IF NoRest(d, c.slug) \/ "menu" \notin DOMAIN d[c.slug] THEN Outcome("False", d)
    ELSE LET idx == PyInt(c.index)
         IN  IF ~idx.ok THEN Outcome("False", d)
             ELSE IF idx.n < 0 \/ idx.n >= Len(d[c.slug]["menu"]) THEN Outcome("False", d)
             ELSE Outcome("save", MergeItem(d, c.slug, idx.n, ValidFields(c.fields)))

set_restaurant_theme(c, d) ==
    IF NoRest(d, c.slug) THEN Outcome("False", d)
    ELSE Outcome("save", [d EXCEPT ![c.slug] = DictUpdate(@, [theme |-> c.theme])])

\* Variant: no check that the slug is already taken.
create_restaurant_Overwrite(c, d, now) ==
    IF MenuRaises(Get(c.restaurant, "menu", <<>>)) THEN Outcome("ValueError", d)
    ELSE Outcome("save", DocPut(d, c.slug, NewRecord(c.slug, c.restaurant, c.theme, now)))

create_restaurant(c, d, now) ==
    IF c.slug \in DOMAIN d THEN Outcome("False", d)
    ELSE IF MenuRaises(Get(c.restaurant, "menu", <<>>)) THEN Outcome("ValueError", d)
    ELSE Outcome("save", DocPut(d, c.slug, NewRecord(c.slug, c.restaurant, c.theme, now)))

\* Variant: the record is not removed from the loaded document.
delete_restaurant_Keep(c, d) ==
    IF c.slug \notin DOMAIN d THEN Outcome("False", d)
    ELSE Outcome("save", d)

delete_restaurant(c, d) ==
    IF c.slug \notin DOMAIN d THEN Outcome("False", d)
    ELSE Outcome("save", DocDel(d, c.slug))

update_restaurant(c, d) == Outcome("save", DocPut(d, c.slug, c.new_restaurant))

get_restaurant(c, d) ==
    IF c.slug \in DOMAIN d THEN Outcome("Record", d) ELSE Outcome("None", d)

\* QRD.generate_qr(slug, table): the path it returns.
QrPath(slug, table) ==
    <<"q","r","/">> \o slug \o <<"-","t","a","b","l","e","-">>
        \o DigitsOf(table) \o <<".","p","n","g">>

\* request.form.get('table_num', type=int): None (ok = FALSE) when int() raises.
FormInt(v) == PyInt(v)

\* Place of entry i after list.sort(key=num): the sort is stable.
Rank(tables, i) ==
    Cardinality({j \in DOMAIN tables :
                    \/ tables[j].num < tables[i].num
                    \/ tables[j].num = tables[i].num /\ j <= i})

\* Variant: the list is left in insertion order.
SortByNum_Keep(tables) == tables

SortByNum(tables) ==
    [p \in 1..Len(tables) |-> tables[CHOOSE i \in DOMAIN tables : Rank(tables, i) = p]]

Answer(r, rec) == [ret |-> r, rec |-> rec]

\* admin_add_table up to its call of update_restaurant, on the document d
\* that get_restaurant loaded.
admin_add_table(c, d) ==
    IF NoRest(d, c.slug) THEN Answer("404", EmptyDict)
    ELSE LET restaurant == d[c.slug]
             table_num  == FormInt(c.index)
             tables     == Get(restaurant, "tables", <<>>)
         IN  IF ~table_num.ok \/ table_num.n = 0 \/ table_num.n < 1
             THEN Answer("redirect", EmptyDict)
             ELSE IF \E i \in DOMAIN tables : tables[i].num = table_num.n
             THEN Answer("redirect", EmptyDict)
             ELSE Answer("update",
                         DocPut(restaurant, "tables",
                                SortByNum(Append(tables,
                                    [num |-> table_num.n,
                                     qr_path |-> Str(QrPath(c.slug, table_num.n))]))))

\* admin_delete_table up to its call of update_restaurant.
admin_delete_table(c, d) ==
    IF NoRest(d, c.slug) THEN Answer("404", EmptyDict)
    ELSE LET restaurant == d[c.slug]
             table_num  == PyInt(c.index).n
             tables     == Get(restaurant, "tables", <<>>)
             Other(x)   == x.num # table_num
         IN  Answer("update", DocPut(restaurant, "tables", SelectSeq(tables, Other)))

Handlers == {"admin_add_table", "admin_delete_table"}

Body(c, d, now) ==
    CASE c.name = "update_menu_item"     -> update_menu_item(c, d)
      [] c.name = "set_restaurant_theme" -> set_restaurant_theme(c, d)
      [] c.name = "create_restaurant"    -> create_restaurant(c, d, now)
      [] c.name = "delete_restaurant"    -> delete_restaurant(c, d)
      [] c.name = "update_restaurant"    -> update_restaurant(c, d)
      [] c.name = "get_restaurant"       -> get_restaurant(c, d)
      [] c.name \in Handlers             ->
            IF ValidSlug(c.slug) THEN update_restaurant(c, d) ELSE Outcome("False", d)

\* The whole-record write a successful call stands for, if any.
LifeAfter(c, l) ==
    CASE c.name = "create_restaurant" -> [l EXCEPT ![c.slug] = "create"]
      [] c.name = "delete_restaurant" -> [l EXCEPT ![c.slug] = "delete"]
      [] c.name = "update_restaurant" -> [l EXCEPT ![c.slug] = "replace"]
      [] OTHER -> l

-----------------------------------------------------------------------------
(* Actions *)

\* A thread enters one of the calls; the validation that precedes load_data
\* is local to the thread.
Call(t, calls) ==
    /\ pc[t] = "idle"
    /\ \E c \in calls :
        /\ op'  = [op EXCEPT ![t] = c]
        /\ pre' = [pre EXCEPT ![t] = [file |-> file, life |-> life]]
        /\ IF EarlyReject(c)
           THEN pc' = [pc EXCEPT ![t] = "done"] /\ ret' = [ret EXCEPT ![t] = "False"]
           ELSE pc' = [pc EXCEPT ![t] = "load"] /\ ret' = ret
    /\ UNCHANGED <<file, lock, tmp, data, life, events, clock, report>>

\* A thread enters one of the table handlers of app.py.
Request(t, requests) ==
    /\ pc[t] = "idle"
    /\ \E c \in requests : op' = [op EXCEPT ![t] = c]
    /\ pc' = [pc EXCEPT ![t] = "get"]
    /\ UNCHANGED <<file, lock, tmp, data, ret, pre, life, events, clock, report>>

\* The handler from get_restaurant(slug) up to its redirect, its 404 or its
\* call of update_restaurant(slug, restaurant) with the record it has built.
Handler(t) ==
    /\ pc[t] = "get"
    /\ file.kind # "corrupt"
    /\ LET d == IF file.kind = "json" THEN file.doc ELSE EmptyDoc
           r == IF op[t].name = "admin_add_table"
                THEN admin_add_table(op[t], d) ELSE admin_delete_table(op[t], d)
       IN  IF r.ret = "update"
           THEN /\ op' = [op EXCEPT ![t].new_restaurant = r.rec]
                /\ pc' = [pc EXCEPT ![t] = "load"]
                /\ ret' = ret
           ELSE /\ op' = op
                /\ pc' = [pc EXCEPT ![t] = "done"]
                /\ ret' = [ret EXCEPT ![t] = r.ret]
    /\ UNCHANGED <<file, lock, tmp, data, pre, life, events, clock, report>>

\* load_data() on a malformed document: the handler of JSONDecodeError
\* evaluates os.time(), which the os module does not have, so AttributeError
\* leaves load_data before shutil.move runs.
LoadCorrupt(t) ==
    /\ pc[t] \in {"load", "get"}
    /\ file.kind = "corrupt"
    /\ pc'  = [pc EXCEPT ![t] = "done"]
    /\ ret' = [ret EXCEPT ![t] = "AttributeError"]
    /\ UNCHANGED <<file, lock, tmp, op, data, pre, life, events, clock, report>>

\* load_data() followed by the in-memory part of the operation, up to its
\* return or its call of save_data.
Load(t) ==
    /\ pc[t] = "load"
    /\ file.kind # "corrupt"
    /\ \E now \in Clock :
        LET d == IF file.kind = "json" THEN file.doc ELSE EmptyDoc
            r == Body(op[t], d, now)
        IN  /\ data' = [data EXCEPT ![t] = r.data]
            /\ IF r.ret = "save"
               THEN pc' = [pc EXCEPT ![t] = "save"] /\ ret' = ret
               ELSE pc' = [pc EXCEPT ![t] = "done"] /\ ret' = [ret EXCEPT ![t] = r.ret]
    /\ UNCHANGED <<file, lock, tmp, op, pre, life, events, clock, report>>

\* save_data: `with _save_lock` and mkstemp in the directory of DATA_FILE.
Acquire(t) ==
    /\ pc[t] = "save"
    /\ lock = 0
    /\ lock' = t
    /\ tmp'  = [tmp EXCEPT ![t] = [exists |-> TRUE, complete |-> FALSE, doc |-> EmptyDoc]]
    /\ pc'   = [pc EXCEPT ![t] = "locked"]
    /\ UNCHANGED <<file, op, data, ret, pre, life, events, clock, report>>

\* mkstemp raises (before the try): no temporary file, the lock is released.
MkstempFail(t) ==
    /\ pc[t] = "save"
    /\ lock = 0
    /\ pc'  = [pc EXCEPT ![t] = "done"]
    /\ ret' = [ret EXCEPT ![t] = "OSError"]
    /\ UNCHANGED <<file, lock, tmp, op, data, pre, life, events, clock, report>>

\* Variant: json.dump writes into DATA_FILE itself.
WriteTemp_InPlace(t) ==
    /\ pc[t] = "locked"
    /\ file' = [kind |-> "corrupt", doc |-> EmptyDoc]
    /\ tmp'  = [tmp EXCEPT ![t] = [exists |-> TRUE, complete |-> TRUE, doc |-> data[t]]]
    /\ pc'   = [pc EXCEPT ![t] = "written"]
    /\ UNCHANGED <<lock, op, data, ret, pre, life, events, clock, report>>

\* json.dump into the temporary file completes.
WriteTemp(t) ==
    /\ pc[t] = "locked"
    /\ tmp' = [tmp EXCEPT ![t] = [exists |-> TRUE, complete |-> TRUE, doc |-> data[t]]]
    /\ pc'  = [pc EXCEPT ![t] = "written"]
    /\ UNCHANGED <<file, lock, op, data, ret, pre, life, events, clock, report>>

\* Variant: the except branch re-raises without unlinking the temporary file.
SaveFailed_NoUnlink(t) ==
    /\ lock' = 0
    /\ pc'   = [pc EXCEPT ![t] = "done"]
    /\ ret'  = [ret EXCEPT ![t] = "OSError"]
    /\ UNCHANGED <<file, tmp, op, data, pre, life, events, clock, report>>

\* The except branch of save_data: unlink the temporary file, re-raise; the
\* with statement releases the lock.
SaveFailed(t) ==
    /\ tmp'  = [tmp EXCEPT ![t] = NoTmp]
    /\ lock' = 0
    /\ pc'   = [pc EXCEPT ![t] = "done"]
    /\ ret'  = [ret EXCEPT ![t] = "OSError"]
    /\ UNCHANGED <<file, op, data, pre, life, events, clock, report>>

\* json.dump fails part-way (disk full).
WriteFail(t) ==
    /\ pc[t] = "locked"
    /\ SaveFailed(t)

\* Variant: the lock is still held when save_data returns.
Replace_HoldLock(t) ==
    /\ pc[t] = "written"
    /\ file' = JsonFile(tmp[t].doc)
    /\ tmp'  = [tmp EXCEPT ![t] = NoTmp]
    /\ pc'   = [pc EXCEPT ![t] = "done"]
    /\ ret'  = [ret EXCEPT ![t] = "True"]
    /\ life' = LifeAfter(op[t], life)
    /\ UNCHANGED <<lock, op, data, pre, events, clock, report>>

\* shutil.move(temp_path, DATA_FILE): a rename within one directory, then the
\* lock is released and the operation returns True.
Replace(t) ==
    /\ pc[t] = "written"
    /\ file' = JsonFile(tmp[t].doc)
    /\ tmp'  = [tmp EXCEPT ![t] = NoTmp]
    /\ lock' = 0
    /\ pc'   = [pc EXCEPT ![t] = "done"]
    /\ ret'  = [ret EXCEPT ![t] = "True"]
    /\ life' = LifeAfter(op[t], life)
    /\ UNCHANGED <<op, data, pre, events, clock, report>>

\* shutil.move fails: the target is untouched.
ReplaceFail(t) ==
    /\ pc[t] = "written"
    /\ SaveFailed(t)

InFlight(t) == pc[t] \in {"get", "load", "save", "locked", "written"}

\* The process dies while a thread is inside save_data: every call in flight
\* stops where it is, the lock dies with the process, the files stay as they
\* are on disk.  (A crash with no save in progress leaves nothing behind that
\* a thread pausing for ever would not.)
Crash ==
    /\ lock # 0
    /\ pc'   = [t \in Threads |-> IF InFlight(t) THEN "crashed" ELSE pc[t]]
    /\ lock' = 0
    /\ UNCHANGED <<file, tmp, op, data, ret, pre, life, events, clock, report>>

\* The caller has its result; the thread serves the next request.
Return(t) ==
    /\ pc[t] = "done"
    /\ pc'   = [pc EXCEPT ![t] = "idle"]
    /\ op'   = [op EXCEPT ![t] = NoOp]
    /\ data' = [data EXCEPT ![t] = EmptyDoc]
    /\ ret'  = [ret EXCEPT ![t] = "pending"]
    /\ pre'  = [pre EXCEPT ![t] = NoPre]
    /\ UNCHANGED <<file, lock, tmp, life, events, clock, report>>

\* Request threads, one call each, interleaved step by step.
Next ==
    \/ \E t \in Threads : Call(t, ConcCalls)
    \/ \E t \in Threads : LoadCorrupt(t)
    \/ \E t \in Threads : Load(t)
    \/ \E t \in Threads : Acquire(t)
    \/ \E t \in Threads : MkstempFail(t)
    \/ \E t \in Threads : WriteTemp(t)
    \/ \E t \in Threads : WriteFail(t)
    \/ \E t \in Threads : Replace(t)
    \/ \E t \in Threads : ReplaceFail(t)
    \/ Crash

Spec == Init /\ [][Next]_vars

\* The single caller of the sequential specification.
Caller == CHOOSE t \in Threads : TRUE

\* The caller issues its next call once the previous one has returned.
SeqCall == Call(Caller, SeqCalls)

\* A single caller on a healthy disk: each call runs to completion before
\* the next one begins.
SeqNext ==
    \/ SeqCall
    \/ Request(Caller, SeqRequests)
    \/ Handler(Caller)
    \/ LoadCorrupt(Caller)
    \/ Load(Caller)
    \/ Acquire(Caller)
    \/ WriteTemp(Caller)
    \/ Replace(Caller)
    \/ Return(Caller)

SeqSpec == Init /\ [][SeqNext]_vars

\* Any step of thread t inside a call.
Step(t) ==
    \/ LoadCorrupt(t)
    \/ Load(t)
    \/ Acquire(t)
    \/ MkstempFail(t)
    \/ WriteTemp(t)
    \/ WriteFail(t)
    \/ Replace(t)
    \/ ReplaceFail(t)

FairNext ==
    \/ \E t \in Threads : Call(t, FairCalls)
    \/ \E t \in Threads : Step(t)

\* The process stays up and the scheduler is fair: a thread that can go on
\* (it is runnable, or it waits for a lock that stays free) eventually does.
FairSpec == Init /\ [][FairNext]_vars /\ \A t \in Threads : WF_vars(Step(t))

\* The request threads that serve the table pages.
Workers == {t \in Threads : t <= 2}

\* Table requests and delete_restaurant, interleaved step by step; a thread
\* serves its next request when the previous one has been answered.
TableNext ==
    \/ \E t \in Workers : Request(t, TableRequests)
    \/ \E t \in Workers : Call(t, TableCalls)
    \/ \E t \in Workers : Handler(t)
    \/ \E t \in Workers : LoadCorrupt(t)
    \/ \E t \in Workers : Load(t)
    \/ \E t \in Workers : Acquire(t)
    \/ \E t \in Workers : WriteTemp(t)
    \/ \E t \in Workers : Replace(t)
    \/ \E t \in Workers : Return(t)

TableSpec == Init /\ [][TableNext]_vars

-----------------------------------------------------------------------------
(* analytics.py: the Event Store (default SQLite engine) *)

svars == <<file, lock, tmp, pc, op, data, ret, pre, life>>

\* LIMIT of the top-items query of get_monthly_summary.
TopLimit == 10

\* Column item_index: NULL or an integer.
NullIndex == [null |-> TRUE,  i |-> 0]
Index(i)  == [null |-> FALSE, i |-> i]

\* A timestamp is <<year, month, day, second of the day>>: the fields of the
\* text 'YYYY-MM-DD HH:MM:SS' that SQLite stores and compares.
Instants == << <<2023, 12, 31, 86399>>, <<2024, 1, 1, 0>>,
               <<2024, 1, 15, 43200>>, <<2024, 2, 1, 0>> >>

Months == {<<2023, 12>>, <<2024, 1>>, <<2024, 2>>}

\* ts < other: the comparison of two timestamp texts, field by field.
TsLt(ts, other) ==
    \E i \in DOMAIN ts : ts[i] < other[i] /\ \A j \in 1..(i - 1) : ts[j] = other[j]

\* datetime(year, month, 1)
MonthStart(year, month) == <<year, month, 1, 0>>

\* The first instant of the next month, December rolling over.
MonthEnd(year, month) ==
    IF month = 12 THEN <<year + 1, 1, 1, 0>> ELSE <<year, month + 1, 1, 0>>

Event(slug, etype, item_index, ts) ==
    [slug |-> slug, type |-> etype, item_index |-> item_index, ts |-> ts]

\* Variant: the window includes its end.
InMonthWindow_Closed(ts, start, end) == ~TsLt(ts, start) /\ ~TsLt(end, ts)

\* ts >= :start AND ts < :end
InMonthWindow(ts, start, end) == ~TsLt(ts, start) /\ TsLt(ts, end)

\* Variant: the rows are not restricted to the slug.
Matching_AnySlug(log, slug, etype, start, end) ==
    {n \in DOMAIN log : log[n].type = etype /\ InMonthWindow(log[n].ts, start, end)}

\* The rows selected by WHERE slug=:slug AND type=... AND ts>=:start AND ts<:end
Matching(log, slug, etype, start, end) ==
    {n \in DOMAIN log :
        /\ log[n].slug = slug
        /\ log[n].type = etype
        /\ InMonthWindow(log[n].ts, start, end)}

\* Variant: rows without item index are left out of the grouping.
Groups_NonNull(log, rows) == {log[n].item_index : n \in rows} \ {NullIndex}

\* GROUP BY item_index: NULL forms one group.
Groups(log, rows) == {log[n].item_index : n \in rows}

GroupCount(log, rows, g) == Cardinality({n \in rows : log[n].item_index = g})

\* ORDER BY cnt DESC LIMIT k: every order of the groups by falling count;
\* the order among groups of equal count is the engine's choice.
RECURSIVE Ranked(_, _, _)
Ranked(cnt, G, k) ==
    IF G = {} \/ k = 0 THEN {<<>>}
    ELSE LET most == CHOOSE c \in {cnt[g] : g \in G} : \A g \in G : cnt[g] <= c
             best == {g \in G : cnt[g] = most}
         IN  UNION {{<<[index |-> g, clicks |-> most]>> \o r :
                        r \in Ranked(cnt, G \ {g}, k - 1)} : g \in best}

\* The results get_monthly_summary can return on a log.
Summaries(log, slug, year, month) ==
    LET start  == MonthStart(year, month)
        end    == MonthEnd(year, month)
        scans  == Matching(log, slug, "scan", start, end)
        clicks == Matching(log, slug, "click", start, end)
        G      == Groups(log, clicks)
        cnt    == [g \in G |-> GroupCount(log, clicks, g)]
    IN  {[kind |-> "summary", slug |-> slug, year |-> year, month |-> month,
          scans |-> Cardinality(scans), clicks |-> Cardinality(clicks),
          top_items |-> top] :
            top \in Ranked(cnt, G, TopLimit)}

\* Logs the Event Store starts with: none; 3 scans and 5 clicks of a (2 on
\* item 0, 3 on item 1) among events of b; and clicks of a on TopLimit + 1
\* items, item i clicked i + 1 times.  All stamped 2024-01-01 00:00:00.
Jan1 == Instants[2]

ExampleLog ==
    << Event(SA, "scan", NullIndex, Jan1),  Event(SA, "click", Index(0), Jan1),
       Event(SB, "scan", NullIndex, Jan1),  Event(SA, "click", Index(1), Jan1),
       Event(SA, "click", Index(1), Jan1),  Event(SA, "scan", NullIndex, Jan1),
       Event(SB, "click", Index(0), Jan1),  Event(SA, "click", Index(0), Jan1),
       Event(SA, "click", Index(1), Jan1),  Event(SA, "scan", NullIndex, Jan1) >>

BigLog ==
    [n \in 1..(((TopLimit + 1) * (TopLimit + 2)) \div 2) |->
        Event(SA, "click",
              Index(CHOOSE i \in 0..TopLimit :
                        (i * (i + 1)) \div 2 < n /\ n <= ((i + 1) * (i + 2)) \div 2),
              Jan1)]

InitLogs == {<<>>, ExampleLog, BigLog}

IsPrefix(a, b) == Len(a) <= Len(b) /\ SubSeq(b, 1, Len(a)) = a

\* The log the store started with.
Seeded(log) ==
    CHOOSE a \in InitLogs :
        IsPrefix(a, log) /\ \A b \in InitLogs : IsPrefix(b, log) => Len(b) <= Len(a)

\* Inputs of the recording calls and of the summary.
ScanSlugs   == {SA}
ClickInputs == {<<SA, NullIndex>>, <<SA, Index(0)>>, <<SA, Index(1)>>, <<SB, Index(0)>>}
Queries     == {<<SA, m[1], m[2]>> : m \in Months} \cup {<<SB, 2024, 1>>}

\* The Event Store next to a fixed Record Store.
EventInit ==
    /\ file = JsonFile(SeedDoc)
    /\ lock = 0
    /\ tmp  = [t \in Threads |-> NoTmp]
    /\ pc   = [t \in Threads |-> "idle"]
    /\ op   = [t \in Threads |-> NoOp]
    /\ data = [t \in Threads |-> EmptyDoc]
    /\ ret  = [t \in Threads |-> "pending"]
    /\ pre  = [t \in Threads |-> NoPre]
    /\ life = [s \in Slugs |-> "create"]
    /\ events \in InitLogs
    /\ clock  = IF events = <<>> THEN 1 ELSE 2
    /\ report = NoReport

\* Variant: the insert replaces the rows of the table.
record_event_Overwrite(log, slug, etype, item_index, ts) ==
    <<Event(slug, etype, item_index, ts)>>

\* INSERT INTO events (slug, type, item_index) VALUES (...): one new row,
\* ts by CURRENT_TIMESTAMP, in one transaction.
record_event(log, slug, etype, item_index, ts) ==
    Append(log, Event(slug, etype, item_index, ts))

\* The recording calls go on while the log has room.
Room == Len(events) < Len(Seeded(events)) + MaxEvents

record_scan(slug) ==
    /\ Room
    /\ events' = record_event(events, slug, "scan", NullIndex, Instants[clock])
    /\ report' = NoReport
    /\ UNCHANGED <<svars, clock>>

record_click(slug, item_index) ==
    /\ Room
    /\ events' = record_event(events, slug, "click", item_index, Instants[clock])
    /\ report' = NoReport
    /\ UNCHANGED <<svars, clock>>

\* Time passes.
Tick ==
    /\ clock < Len(Instants)
    /\ clock' = clock + 1
    /\ UNCHANGED <<svars, events, report>>

get_monthly_summary(slug, year, month) ==
    /\ report' \in Summaries(events, slug, year, month)
    /\ UNCHANGED <<svars, events, clock>>

EventNext ==
    \/ \E slug \in ScanSlugs : record_scan(slug)
    \/ \E c \in ClickInputs : record_click(c[1], c[2])
    \/ Tick
    \/ \E q \in Queries : get_monthly_summary(q[1], q[2], q[3])

EventSpec == EventInit /\ [][EventNext]_vars

\* Calls of a single caller of the Record Store while events are recorded.
LogCalls == {CreateRestaurant(SA, D2, "default"), DeleteRestaurant(SA)}

LogNext ==
    \/ \E slug \in ScanSlugs : record_scan(slug)
    \/ \E c \in ClickInputs : record_click(c[1], c[2])
    \/ \E q \in Queries : get_monthly_summary(q[1], q[2], q[3])
    \/ Call(Caller, LogCalls)
    \/ LoadCorrupt(Caller)
    \/ Load(Caller)
    \/ Acquire(Caller)
    \/ WriteTemp(Caller)
    \/ Replace(Caller)
    \/ Return(Caller)

LogSpec == Init /\ [][LogNext]_vars

-----------------------------------------------------------------------------
(* Vocabulary of the properties *)

Done(t, name) == pc[t] = "done" /\ op[t].name = name

\* The call of thread t ran into no I/O failure.
NoIOError(t) == ret[t] # "OSError"

\* The menu item that update_menu_item call c addresses exists in document d.
Addresses(c, d) ==
    /\ c.slug \in DOMAIN d
    /\ "menu" \in DOMAIN d[c.slug]
    /\ PyInt(c.index).ok
    /\ PyInt(c.index).n >= 0
    /\ PyInt(c.index).n < Len(d[c.slug]["menu"])

ItemAt(d, c) == d[c.slug]["menu"][PyInt(c.index).n + 1]

AllowListed(c) == DOMAIN c.fields \cap VALID_ITEM_FIELDS

\* Document d shows the patch of call c on the item it addresses.
Shows(d, c) ==
    /\ Addresses(c, d)
    /\ \A k \in AllowListed(c) :
          k \in DOMAIN ItemAt(d, c) /\ ItemAt(d, c)[k] = NormalizeField(k, c.fields[k])

-----------------------------------------------------------------------------
(* Concurrency of the mutating operations *)

\* C1: two update_menu_item calls on different existing slugs, run
\* concurrently with in-range indices and valid patches, both return True
\* and the persisted document shows both patches once both have completed.
C1_NoLostUpdate ==
    \A t, u \in Threads :
        ( /\ t # u
          /\ Done(t, "update_menu_item") /\ Done(u, "update_menu_item")
          /\ op[t].slug # op[u].slug
          /\ Addresses(op[t], pre[t].file.doc) /\ Addresses(op[u], pre[u].file.doc)
          /\ NoIOError(t) /\ NoIOError(u) )
        => /\ ret[t] = "True" /\ ret[u] = "True"
           /\ Shows(file.doc, op[t]) /\ Shows(file.doc, op[u])

Mutating(t) ==
    op[t].name \in {"create_restaurant", "update_restaurant", "update_menu_item",
                    "set_restaurant_theme", "delete_restaurant"}

\* Thread t has read the document and has not yet persisted its change.
InWindow(t) == Mutating(t) /\ pc[t] \in {"save", "locked", "written"}

ReadsNow(u)    == Mutating(u) /\ pc[u] = "load" /\ pc'[u] \in {"save", "done"}
PersistsNow(u) == Mutating(u) /\ pc[u] = "written" /\ file' = JsonFile(tmp[u].doc)

\* C2: between a mutating operation's read of the document and its persist
\* no other mutating operation reads or persists: the read-modify-persist
\* sequence runs under the single lock.
C2_ReadModifyWriteUnderLock ==
    [][\A t, u \in Threads :
          (t # u /\ InWindow(t)) => ~(ReadsNow(u) \/ PersistsNow(u))]_vars

\* C3: of two create_restaurant calls with the same well-formed slug and
\* different drafts, both begun while the slug is absent, at most one
\* returns True, and the record persisted is the one of the call that did.
C3_CreateUniqueUnderConcurrency ==
    \A t, u \in Threads :
        ( /\ t # u
          /\ Done(t, "create_restaurant") /\ Done(u, "create_restaurant")
          /\ op[t].slug = op[u].slug /\ ValidSlug(op[t].slug)
          /\ op[t].restaurant # op[u].restaurant
          /\ pre[t].file.kind # "corrupt"
          /\ op[t].slug \notin DOMAIN pre[t].file.doc
          /\ op[t].slug \notin DOMAIN pre[u].file.doc
          /\ NoIOError(t) /\ NoIOError(u) )
        => /\ ~(ret[t] = "True" /\ ret[u] = "True")
           /\ ret[t] = "True" =>
                 /\ op[t].slug \in DOMAIN file.doc
                 /\ file.doc[op[t].slug]["name"]
                        = NewRecord(op[t].slug, op[t].restaurant, op[t].theme, T0)["name"]

-----------------------------------------------------------------------------
(* Atomicity and failure of save_data, corrupt documents *)

\* C4: every step leaves DATA_FILE as it was or replaces it by the complete
\* document some thread handed to save_data, also in the middle of a save
\* and across a crash; a reader meets a malformed document only if the file
\* was already malformed when its call began.
C4_WholeDocumentAtomicity ==
    /\ [][\/ file' = file
          \/ \E t \in Threads : pc[t] = "written" /\ file' = JsonFile(data[t])]_vars
    /\ [](\A t \in Threads :
             ret[t] = "AttributeError" => pre[t].file.kind = "corrupt")

\* A crash caught a thread while its temporary file was incomplete, and the
\* target still holds a complete document.
C4_Witness ==
    \E t \in Threads :
        /\ pc[t] = "crashed"
        /\ tmp[t].exists /\ ~tmp[t].complete
        /\ file.kind = "json" /\ file.doc # EmptyDoc

\* C5: when save_data fails (mkstemp, the write of the temporary file, or
\* the replace), the error reaches the caller, the temporary file is gone,
\* the committed document is unchanged and the lock is free.
C5_FailedSaveLeavesNoTrace ==
    [][\A t \in Threads :
          (pc[t] \in {"save", "locked", "written"} /\ pc'[t] = "done" /\ ret'[t] # "True")
          => /\ ret'[t] = "OSError"
             /\ ~tmp'[t].exists
             /\ file' = file
             /\ lock' = 0]_vars

\* A save has failed on a store that holds records.
C5_Witness ==
    \E t \in Threads :
        /\ pc[t] = "done" /\ ret[t] = "OSError"
        /\ ~tmp[t].exists /\ lock = 0
        /\ file = pre[t].file /\ file.kind = "json" /\ file.doc # EmptyDoc

\* The call of thread t went through load_data.
Loaded(t) == pc[t] = "done" /\ ~EarlyReject(op[t])

\* C6: load_data on a malformed document does not raise; it moves the file
\* away, so the main path no longer holds it, and returns an empty mapping,
\* so the operations built on it keep working.
C6_CorruptDocumentQuarantined ==
    \A t \in Threads :
        (Loaded(t) /\ pre[t].file.kind = "corrupt")
        => /\ ret[t] # "AttributeError"
           /\ file.kind # "corrupt"

-----------------------------------------------------------------------------
(* Contracts of the operations for a single caller (SeqSpec) *)

Before(t) == pre[t].file.doc

\* The last whole-record write of the call's slug when the call began.
LastWrite(t) == IF op[t].slug \in Slugs THEN pre[t].life[op[t].slug] ELSE "none"

\* The stored record of every slug other than s is what it was.
OthersUntouched(t, s) ==
    \A x \in (DOMAIN Before(t) \cup DOMAIN file.doc) \ {s} :
        x \in DOMAIN Before(t) /\ x \in DOMAIN file.doc /\ file.doc[x] = Before(t)[x]

\* C7: a create_restaurant for a well-formed slug whose last whole-record
\* write was a successful create_restaurant returns False and leaves the
\* stored record of that slug and every other record as they were.
C7_SecondCreateFails ==
    \A t \in Threads :
        ( /\ Done(t, "create_restaurant")
          /\ ValidSlug(op[t].slug)
          /\ LastWrite(t) = "create" )
        => /\ ret[t] = "False"
           /\ file = pre[t].file

\* The second create carried a draft other than the one stored.
C7_Witness ==
    \E t \in Threads :
        /\ Done(t, "create_restaurant")
        /\ LastWrite(t) = "create"
        /\ ret[t] = "False"
        /\ op[t].slug \in DOMAIN file.doc
        /\ file.doc[op[t].slug]["name"]
              # NewRecord(op[t].slug, op[t].restaurant, op[t].theme, T0)["name"]

\* C8: a delete_restaurant that returns True removes the slug and leaves the
\* other records alone; while the delete is the last whole-record write of
\* the slug, get_restaurant returns None, a second delete_restaurant returns
\* False, and create_restaurant returns True and makes the slug present.
C8_DeleteThenAbsentThenCreatable ==
    \A t \in Threads :
        LET s == op[t].slug
        IN  /\ (Done(t, "delete_restaurant") /\ ret[t] = "True")
                => /\ s \in DOMAIN Before(t)
                   /\ s \notin DOMAIN file.doc
                   /\ OthersUntouched(t, s)
            /\ (Done(t, "get_restaurant") /\ LastWrite(t) = "delete")
                => ret[t] = "None"
            /\ (Done(t, "delete_restaurant") /\ LastWrite(t) = "delete")
                => ret[t] = "False" /\ file = pre[t].file
            /\ (Done(t, "create_restaurant") /\ LastWrite(t) = "delete")
                => /\ ret[t] = "True"
                   /\ s \in DOMAIN file.doc
                   /\ OthersUntouched(t, s)

\* A slug was deleted, and created again while another record was stored.
C8_Witness ==
    \E t \in Threads :
        /\ Done(t, "create_restaurant")
        /\ LastWrite(t) = "delete"
        /\ ret[t] = "True"
        /\ op[t].slug \in DOMAIN file.doc
        /\ DOMAIN Before(t) # {}

\* C9: update_menu_item on an existing slug, an in-range index and a valid
\* patch succeeds; afterwards the item is the old item with exactly the
\* allow-listed fields of the patch set to their normalized values, nothing
\* outside the allow-list is stored, the other items, the other top-level
\* fields and the other records are unchanged, and a patch the item already
\* shows leaves the document identical.
C9_PartialMerge ==
    \A t \in Threads :
        LET c   == op[t]
            s   == c.slug
            old == ItemAt(Before(t), c)
            new == ItemAt(file.doc, c)
        IN  ( /\ Done(t, "update_menu_item")
              /\ pre[t].file.kind = "json"
              /\ Addresses(c, Before(t))
              /\ ~EarlyReject(c) )
            => /\ ret[t] = "True"
               /\ Addresses(c, file.doc)
               /\ DOMAIN new = DOMAIN old \cup AllowListed(c)
               /\ \A k \in DOMAIN new :
                     new[k] = IF k \in AllowListed(c)
                              THEN NormalizeField(k, c.fields[k]) ELSE old[k]
               /\ Len(file.doc[s]["menu"]) = Len(Before(t)[s]["menu"])
               /\ \A j \in DOMAIN file.doc[s]["menu"] :
                     j # PyInt(c.index).n + 1
                        => file.doc[s]["menu"][j] = Before(t)[s]["menu"][j]
               /\ DOMAIN file.doc[s] = DOMAIN Before(t)[s]
               /\ \A k \in DOMAIN file.doc[s] \ {"menu"} :
                     file.doc[s][k] = Before(t)[s][k]
               /\ OthersUntouched(t, s)
               /\ Shows(Before(t), c) => file.doc = Before(t)

\* The text patch was applied to an item that already showed it: category
\* title-cased, name trimmed, flag coerced, the unknown field absent, and the
\* price of the draft still there.
C9_Witness ==
    \E t \in Threads :
        /\ Done(t, "update_menu_item") /\ ret[t] = "True"
        /\ op[t].fields = PText
        /\ Shows(Before(t), op[t])
        /\ file.doc = Before(t)
        /\ LET item == ItemAt(file.doc, op[t])
           IN  /\ item["category"] = Str(<<"I","c","e","d"," ","T","e","a">>)
               /\ item["name"] = Str(<<"c","h","a","i">>)
               /\ item["is_chefs_special"] = Bool(TRUE)
               /\ item["price"] = Num(1500)
               /\ "bogus" \notin DOMAIN item

PriceOnly(t) ==
    /\ Done(t, "update_menu_item")
    /\ DOMAIN op[t].fields = {"price"}
    /\ pre[t].file.kind = "json"
    /\ Addresses(op[t], Before(t))

Refused(t) == ret[t] = "False" /\ file = pre[t].file

Stored(t, m) == ret[t] = "True" /\ ItemAt(file.doc, op[t])["price"] = Num(m)

\* C10 as stated: "abc", 1000000 and a negative price are rejected; 0 and
\* 999999.99 are accepted and stored.
C10_PriceBoundaryAsStated ==
    \A t \in Threads :
        PriceOnly(t) =>
            LET v == op[t].fields["price"]
            IN  /\ v = Str(<<"a","b","c">>) => Refused(t)
                /\ v = Num(1000000000) => Refused(t)
                /\ (v.t = "num" /\ v.n < 0) => Refused(t)
                /\ v = Num(0) => Stored(t, 0)
                /\ v = Num(999999990) => Stored(t, 999999990)

\* C10 amended: "abc", a negative price and every price above 999999
\* (999999.99 and 1000000 among them) are rejected and leave the document
\* unchanged; 0 and 999999 are accepted, and an accepted price is stored
\* rounded to 2 decimal places.
C10_PriceBoundary ==
    \A t \in Threads :
        PriceOnly(t) =>
            LET v == op[t].fields["price"]
            IN  /\ v = Str(<<"a","b","c">>) => Refused(t)
                /\ v = Num(1000000000) => Refused(t)
                /\ v = Num(999999990) => Refused(t)
                /\ (v.t = "num" /\ v.n < 0) => Refused(t)
                /\ (v.t = "num" /\ v.n > 999999000) => Refused(t)
                /\ v = Num(0) => Stored(t, 0)
                /\ v = Num(999999000) => Stored(t, 999999000)
                /\ v = Num(1236) => Stored(t, 1240)
                /\ (v.t = "num" /\ v.n >= 0 /\ v.n <= 999999000) => ret[t] = "True"

\* 999999.99 was refused on an existing item.
C10_Witness ==
    \E t \in Threads :
        /\ PriceOnly(t)
        /\ op[t].fields["price"] = Num(999999990)
        /\ Refused(t)

BadPrice(c) ==
    /\ "price" \in DOMAIN c.fields
    /\ LET p == PyFloat(c.fields["price"])
       IN  ~p.ok \/ p.n < 0 \/ p.n > MaxPrice * 1000

\* C11: update_menu_item is all-or-nothing.  A patch with a bad price (also
\* next to valid fields) or without an allow-listed field, and, on a readable
\* document, an unknown slug, a record without menu, an index that is not an
\* integer or lies outside the menu: each returns False without raising, and
\* every call that returns False leaves the persisted document as it was.
C11_AllOrNothing ==
    \A t \in Threads :
        Done(t, "update_menu_item") =>
            /\ (BadPrice(op[t]) \/ AllowListed(op[t]) = {}) => Refused(t)
            /\ (pre[t].file.kind # "corrupt" /\ ~Addresses(op[t], Before(t))) => Refused(t)
            /\ ret[t] = "False" => file = pre[t].file

\* A patch with a bad price and a valid name was refused on an existing
\* item, whose name is still the stored one.
C11_Witness ==
    \E t \in Threads :
        /\ Done(t, "update_menu_item")
        /\ op[t].fields = PBadMix
        /\ Addresses(op[t], Before(t))
        /\ Refused(t)
        /\ ItemAt(file.doc, op[t])["name"] # Str(<<"x">>)

\* A menu entry the Record Store is to accept: an item with a name whose
\* price, when it has one, is a number in [0, MaxPrice].
WellFormedEntry(e) ==
    /\ e.isdict
    /\ "name" \in DOMAIN e.d
    /\ LET p == PyFloat(Get(e.d, "price", Num(0)))
       IN  p.ok /\ p.n >= 0 /\ p.n <= MaxPrice * 1000

WellFormedItem(item) ==
    /\ DOMAIN item = VALID_ITEM_FIELDS
    /\ item["price"].t = "num" /\ item["price"].n >= 0
    /\ item["category"].t = "str" /\ item["category"].s # <<>>
    /\ item["category"].s = Title(item["category"].s)
    /\ item["is_available"].t = "bool" /\ item["is_chefs_special"].t = "bool"

\* C12: create_restaurant of a well-formed absent slug, with any draft, ends
\* in True or False and never raises; after True the stored menu holds
\* well-formed items only (seven fields, price >= 0, non-empty title-cased
\* category, boolean flags), namely the well-formed entries of the draft in
\* their order; after a failure the document is unchanged.
C12_CreateSanitizes ==
    \A t \in Threads :
        ( /\ Done(t, "create_restaurant")
          /\ ValidSlug(op[t].slug)
          /\ pre[t].file.kind # "corrupt"
          /\ op[t].slug \notin DOMAIN Before(t) )
        => /\ ret[t] \in {"True", "False"}
           /\ ret[t] # "True" => file = pre[t].file
           /\ ret[t] = "True" =>
                 LET menu == file.doc[op[t].slug]["menu"]
                     good == SelectSeq(Get(op[t].restaurant, "menu", <<>>), WellFormedEntry)
                 IN  /\ \A i \in DOMAIN menu : WellFormedItem(menu[i])
                     /\ Len(menu) = Len(good)
                     /\ \A i \in DOMAIN menu :
                           menu[i]["name"] = Str(Strip(PyStr(good[i].d["name"])))

-----------------------------------------------------------------------------
(* Lifecycle and the table pages (TableSpec) *)

\* C13: a record comes into existence only through a successful
\* create_restaurant: a slug whose last whole-record write is a successful
\* delete_restaurant (deleted and not created again since) is absent from
\* the persisted document, in every state of every interleaving.
C13_DeletedStaysAbsent ==
    \A s \in Slugs : life[s] = "delete" => s \notin DOMAIN file.doc

Tables(r) == Get(r, "tables", <<>>)

\* The add-table request of thread t asks for a number that the stored
\* record of its restaurant already lists.
AsksPresent(t) ==
    /\ op[t].name = "admin_add_table"
    /\ file.kind = "json" /\ ~NoRest(file.doc, op[t].slug)
    /\ FormInt(op[t].index).ok
    /\ \E i \in DOMAIN Tables(file.doc[op[t].slug]) :
          Tables(file.doc[op[t].slug])[i].num = FormInt(op[t].index).n

\* C14: in every state of every interleaving of add-table and delete-table
\* requests, each stored tables list is strictly ascending by num (sorted,
\* no number twice) with every num an integer >= 1; and an add-table request
\* that finds its number already listed ends without writing anything.
C14_TablesSortedUnique ==
    /\ [](\A s \in DOMAIN file.doc :
            LET tables == Tables(file.doc[s])
            IN  /\ \A i \in DOMAIN tables : tables[i].num \in Nat /\ tables[i].num >= 1
                /\ \A i, j \in DOMAIN tables : i < j => tables[i].num < tables[j].num)
    /\ [][\A t \in Threads :
            (pc[t] = "get" /\ pc'[t] # "get" /\ AsksPresent(t))
            => pc'[t] = "done" /\ ret'[t] = "redirect" /\ file' = file]_vars

\* A request added table 1 to a list that held table 2: the new entry was
\* sorted in front, and the stored list is 1, 2.
C14_Witness ==
    \E t \in Threads :
        /\ Done(t, "admin_add_table") /\ ret[t] = "True"
        /\ op[t].index = Str(<<"1">>)
        /\ SB \in DOMAIN file.doc
        /\ Len(Tables(file.doc[SB])) = 2
        /\ Tables(file.doc[SB])[1].num = 1 /\ Tables(file.doc[SB])[2].num = 2
        /\ file.doc[SB] = op[t].new_restaurant

-----------------------------------------------------------------------------
(* Themes (SeqSpec) *)

\* C18: set_restaurant_theme returns False and leaves the document as it was
\* for a theme other than default / traditional and, on a readable document,
\* for an unknown slug; otherwise it returns True and changes the theme field
\* of that record and nothing else; and whatever create_restaurant (with any
\* default_theme), set_restaurant_theme, update_menu_item and the table
\* requests have done, every stored record has theme default or traditional.
C18_ThemeAlwaysValid ==
    /\ \A t \in Threads :
          Done(t, "set_restaurant_theme") =>
              LET s == op[t].slug
              IN  /\ op[t].theme \notin {"default", "traditional"} => Refused(t)
                  /\ (pre[t].file.kind # "corrupt" /\ s \notin DOMAIN Before(t))
                        => Refused(t)
                  /\ ( /\ op[t].theme \in {"default", "traditional"}
                       /\ pre[t].file.kind = "json"
                       /\ s \in DOMAIN Before(t) )
                     => /\ ret[t] = "True"
                        /\ s \in DOMAIN file.doc
                        /\ file.doc[s]["theme"] = op[t].theme
                        /\ DOMAIN file.doc[s] = DOMAIN Before(t)[s] \cup {"theme"}
                        /\ \A k \in DOMAIN file.doc[s] \ {"theme"} :
                              file.doc[s][k] = Before(t)[s][k]
                        /\ OthersUntouched(t, s)
    /\ \A s \in DOMAIN file.doc :
          /\ "theme" \in DOMAIN file.doc[s]
          /\ file.doc[s]["theme"] \in {"default", "traditional"}

\* The theme of a record that lists a table was changed from default to
\* traditional, the table list staying as it was.
C18_Witness ==
    \E t \in Threads :
        /\ Done(t, "set_restaurant_theme") /\ ret[t] = "True"
        /\ Before(t)[op[t].slug]["theme"] = "default"
        /\ file.doc[op[t].slug]["theme"] = "traditional"
        /\ Tables(file.doc[op[t].slug]) # <<>>
        /\ Tables(file.doc[op[t].slug]) = Tables(Before(t)[op[t].slug])

-----------------------------------------------------------------------------
(* Progress (FairSpec) *)

\* C19: the save lock is held exactly by a thread inside the body of
\* save_data, so it is free again on every way out (success, failed write,
\* failed replace); a thread in load_data can always take its step, whoever
\* holds the lock; and under fair scheduling every thread that has called
\* save_data gets the lock and every call in flight comes to its end.
C19_NoIndefiniteBlocking ==
    /\ [](\A t \in Threads : lock = t <=> pc[t] \in {"locked", "written"})
    /\ [](\A t \in Threads : pc[t] = "load" => ENABLED (Load(t) \/ LoadCorrupt(t)))
    /\ \A t \in Threads : (pc[t] = "save") ~> (pc[t] \in {"locked", "done"})
    /\ \A t \in Threads : InFlight(t) ~> (pc[t] = "done")

\* A thread that has called save_data waits while another thread holds the
\* lock with its temporary file written.
C19_Witness ==
    \E t, u \in Threads :
        /\ pc[t] = "save" /\ pc[u] = "written" /\ lock = u
        /\ ~ENABLED Acquire(t)

-----------------------------------------------------------------------------
(* Event Store (EventSpec, LogSpec) *)

IsSummary == report.kind = "summary"

\* The events of a slug and a type, and those of one calendar month.
OfSlug(slug, etype) ==
    {n \in DOMAIN events : events[n].slug = slug /\ events[n].type = etype}

InMonth(ts, year, month) == ts[1] = year /\ ts[2] = month

OfMonth(slug, etype, year, month) ==
    {n \in OfSlug(slug, etype) : InMonth(events[n].ts, year, month)}

RECURSIVE SumClicks(_)
SumClicks(top) == IF top = <<>> THEN 0 ELSE Head(top).clicks + SumClicks(Tail(top))

\* The number of events the window of month m selects.
WindowCount(slug, etype, m) ==
    Cardinality(Matching(events, slug, etype, MonthStart(m[1], m[2]), MonthEnd(m[1], m[2])))

RECURSIVE SumOver(_, _)
SumOver(f, S) ==
    IF S = {} THEN 0
    ELSE LET x == CHOOSE y \in S : TRUE IN f[x] + SumOver(f, S \ {x})

\* C15: a monthly summary counts exactly the scans and clicks of its slug
\* stamped in that calendar month, an event stamped at the first instant of
\* a month belonging to that month and not to the one before, December
\* running into January of the next year; every event lies in the window of
\* exactly one month, and over consecutive months the scans and clicks of a
\* slug add up to the number of its events.
C15_HalfOpenMonthWindow ==
    /\ IsSummary =>
          /\ report.scans
                = Cardinality(OfMonth(report.slug, "scan", report.year, report.month))
          /\ report.clicks
                = Cardinality(OfMonth(report.slug, "click", report.year, report.month))
    /\ \A n \in DOMAIN events :
          Cardinality({m \in Months :
                         InMonthWindow(events[n].ts, MonthStart(m[1], m[2]),
                                       MonthEnd(m[1], m[2]))}) = 1
    /\ \A slug \in Slugs :
          SumOver([m \in Months |-> WindowCount(slug, "scan", m)
                                      + WindowCount(slug, "click", m)], Months)
            = Cardinality({n \in DOMAIN events : events[n].slug = slug})

\* The summary of December 2023 counts the scan of 2023-12-31 23:59:59 and
\* not the one of 2024-01-01 00:00:00.
C15_Witness ==
    /\ IsSummary /\ report.slug = SA /\ report.year = 2023 /\ report.month = 12
    /\ report.scans = 1
    /\ \E n \in OfSlug(SA, "scan") : events[n].ts = Instants[1]
    /\ \E n \in OfSlug(SA, "scan") : events[n].ts = MonthStart(2024, 1)

\* C16: when every event is stamped inside the month of the summary, scans
\* and clicks are the numbers of scan and click events of the slug, events
\* of other slugs not counting; top_items has min(TopLimit, number of
\* distinct clicked indices) entries of distinct indices, each with the
\* exact click count of its index, in order of non-increasing count, and no
\* index left out has more clicks than one that is listed.
C16_SummaryCounts ==
    ( /\ IsSummary
      /\ \A n \in DOMAIN events : InMonth(events[n].ts, report.year, report.month) )
    => LET rows     == OfSlug(report.slug, "click")
           idxs     == {events[n].item_index : n \in rows}
           Count(g) == Cardinality({n \in rows : events[n].item_index = g})
           top      == report.top_items
           listed   == {top[i].index : i \in DOMAIN top}
       IN  /\ report.scans = Cardinality(OfSlug(report.slug, "scan"))
           /\ report.clicks = Cardinality(rows)
           /\ Len(top) <= TopLimit
           /\ Len(top) = IF Cardinality(idxs) < TopLimit
                         THEN Cardinality(idxs) ELSE TopLimit
           /\ \A i, j \in DOMAIN top : i # j => top[i].index # top[j].index
           /\ \A i \in DOMAIN top :
                 top[i].index \in idxs /\ top[i].clicks = Count(top[i].index)
           /\ \A i, j \in DOMAIN top : i < j => top[i].clicks >= top[j].clicks
           /\ \A g \in idxs \ listed : \A i \in DOMAIN top : Count(g) <= top[i].clicks

\* 3 scans and 5 clicks of a (2 on item 0, 3 on item 1), next to events of
\* b, give scans 3, clicks 5 and top_items (1, 3), (0, 2).
C16_Witness ==
    /\ IsSummary /\ report.slug = SA /\ report.year = 2024 /\ report.month = 1
    /\ report.scans = 3 /\ report.clicks = 5
    /\ report.top_items = << [index |-> Index(1), clicks |-> 3],
                             [index |-> Index(0), clicks |-> 2] >>
    /\ OfSlug(SB, "click") # {} /\ OfSlug(SB, "scan") # {}

\* C20: clicks recorded without item index count in the clicks total and
\* form one group of their own with index null, listed with its exact count
\* whenever there are at most TopLimit groups and otherwise competing for
\* the TopLimit places; so clicks is at least the sum of the counts of the
\* listed non-null indices, and it equals the sum over all entries when
\* there are at most TopLimit groups.
C20_NullIndexGroup ==
    IsSummary =>
        LET rows     == OfMonth(report.slug, "click", report.year, report.month)
            nullRows == {n \in rows : events[n].item_index = NullIndex}
            groups   == {events[n].item_index : n \in rows}
            top      == report.top_items
            nulls    == {i \in DOMAIN top : top[i].index = NullIndex}
        IN  /\ report.clicks = Cardinality(rows)
            /\ Cardinality(nulls) <= 1
            /\ \A i \in nulls : top[i].clicks = Cardinality(nullRows)
            /\ (nullRows # {} /\ Cardinality(groups) <= TopLimit) => nulls # {}
            /\ report.clicks
                  >= SumClicks(SelectSeq(top, LAMBDA e : e.index # NullIndex))
            /\ Cardinality(groups) <= TopLimit => report.clicks = SumClicks(top)

\* With more than TopLimit groups the clicks without index took one of the
\* TopLimit places, so a clicked item is not listed.
C20_Witness ==
    /\ IsSummary
    /\ Len(report.top_items) = TopLimit
    /\ \E i \in DOMAIN report.top_items : report.top_items[i].index = NullIndex
    /\ report.clicks > SumClicks(report.top_items)

\* C17: the event log is append-only.  A step leaves the log as it is or
\* adds one event behind the others, which stay as they are, and touches no
\* record; delete_restaurant and the summary leave it as it is; and a
\* recording call can go ahead for every slug, whether a restaurant of that
\* slug is stored, never was, or was deleted.
C17_AppendOnly ==
    /\ [][\/ events' = events
          \/ /\ Len(events') = Len(events) + 1
             /\ SubSeq(events', 1, Len(events)) = events
             /\ file' = file]_vars
    /\ [](Room => \A slug \in Slugs :
                    /\ ENABLED record_scan(slug)
                    /\ ENABLED record_click(slug, NullIndex))

\* A restaurant was deleted; the events of its slug are in the log, two or
\* more, and a summary has counted them.
C17_Witness ==
    /\ life[SA] = "delete" /\ SA \notin DOMAIN file.doc
    /\ Cardinality({n \in DOMAIN events : events[n].slug = SA}) >= 2
    /\ IsSummary /\ report.slug = SA /\ report.scans + report.clicks >= 2

====
